---- MODULE Spec2Model ----
(***************************************************************************)
(* Model of src/src/services/JobService.js: the job service that writes    *)
(* jobs to the relational store (db), publishes a propagation event per    *)
(* write, reads preferentially from the search index (es) and falls back   *)
(* to the relational store.                                                *)
(*                                                                         *)
(* Every exposed operation is one action.  An operation is computed by an  *)
(* operator that follows the handler statement by statement and returns    *)
(* its outcome, its result, the new relational store, the events it        *)
(* published and "calls": the external calls it issued, in program order.  *)
(* The outcomes of the external calls (index, membership service, event    *)
(* channel) are inputs of the action.                                      *)
(*                                                                         *)
(* Optional values (undefined / null in the JavaScript) are sequences of   *)
(* length 0 or 1: None is <<>>, Some(x) is <<x>>.  A projectId of 0 stands *)
(* for "no projectId" (0 is falsy, as undefined is).                       *)
(*                                                                         *)
(* Attributes of a job that no operation of the service inspects (title,   *)
(* description, dates, salary, ...) are not part of the job records.       *)
(***************************************************************************)
EXTENDS Integers, Sequences, FiniteSets, TLC

VARIABLES db, es, queue, nextId, last, fresh, projectedSince, nWrites, reqs

vars == <<db, es, queue, nextId, last, fresh, projectedSince, nWrites, reqs>>

-----------------------------------------------------------------------------
(* Bounds of the model *)

\* number of requests of one behaviour that write to the relational store
\* (requests that read, or that are refused, are not limited)
MaxWrites == 1

\* number of requests in flight at the same time, in the view of the service that
\* follows updateJob and deleteJob await by await (SpecC)
MaxProcs == 2

-----------------------------------------------------------------------------
(* Values *)

None == <<>>
Some(x) == <<x>>

\* the callers: currentUser objects as the authentication layer builds them
Mgr == [userId |-> 1, hasManagePermission |-> TRUE, isMachine |-> FALSE, isConnectManager |-> FALSE]
M2M == [userId |-> 2, hasManagePermission |-> FALSE, isMachine |-> TRUE, isConnectManager |-> FALSE]
CM == [userId |-> 3, hasManagePermission |-> FALSE, isMachine |-> FALSE, isConnectManager |-> TRUE]
U1 == [userId |-> 4, hasManagePermission |-> FALSE, isMachine |-> FALSE, isConnectManager |-> FALSE]
Callers == {Mgr, M2M, CM, U1}

Projects == {1, 2}
\* <<userId, projectId>>: the members the project service knows
Members == {<<4, 1>>}

ValidSkills == {"s1", "s2"}
ValidRoles == {"r1"}

\* the ids requests name: the first two ids uuid() mints
JobIds == {1, 2}

-----------------------------------------------------------------------------
(* Helpers on sequences *)

RECURSIVE Uniq(_)
\* _.uniq: the first occurrence of every element, in order
Uniq(s) ==
  IF s = <<>> THEN <<>>
  ELSE LET r == Uniq(SubSeq(s, 1, Len(s) - 1))
           x == s[Len(s)]
       IN IF \E i \in 1 .. Len(r) : r[i] = x THEN r ELSE Append(r, x)

Range(s) == {s[i] : i \in 1 .. Len(s)}

Count(s, x) == Cardinality({i \in 1 .. Len(s) : s[i] = x})

\* the position of the first x in s, 0 when there is none
FirstIndex(s, x) ==
  IF x \in Range(s) THEN CHOOSE i \in 1 .. Len(s) : s[i] = x /\ \A j \in 1 .. (i - 1) : s[j] # x
  ELSE 0

-----------------------------------------------------------------------------
(* External collaborators (src/common/helper.js and the stores) *)

\* helper.checkIsMemberOfProject: one call to the project service
checkIsMemberOfProject(userId, projectId, svc) ==
  IF svc = "fail" THEN "Error"
  ELSE IF <<userId, projectId>> \in Members THEN "ok" ELSE "Forbidden"

\* helper.getUserId: the internal id of a user
getUserId(userId) == 100 + userId

\* helper.isDocumentMissingException
isDocumentMissingException(err) == err = "DocumentMissing"

\* esClient.get on the job index
esClientGet(index, id, svc) ==
  IF svc = "fail" THEN [err |-> "Error", doc |-> None]
  ELSE IF id \notin DOMAIN index THEN [err |-> "DocumentMissing", doc |-> None]
  ELSE [err |-> "none", doc |-> Some(index[id])]

\* the candidates of a job, as both stores hold them (the service never writes them)
CandidatesOf(jobId) == IF jobId = 1 THEN <<"c1">> ELSE <<>>

\* _getJobCandidates: the candidate list from the candidate index
_getJobCandidates(jobId, svc) ==
  IF svc = "fail" THEN [err |-> "Error", list |-> <<>>]
  ELSE [err |-> "none", list |-> CandidatesOf(jobId)]

-----------------------------------------------------------------------------
(* Permission check of the read operations *)

IsPrivilegedReader(currentUser) ==
  currentUser.hasManagePermission \/ currentUser.isMachine \/ currentUser.isConnectManager

\* _checkUserPermissionForGetJob that lets every caller through
_checkUserPermissionForGetJob_Skip(currentUser, projectId, svc) == [calls |-> <<>>, res |-> "ok"]

_checkUserPermissionForGetJob(currentUser, projectId, svc) ==
  IF ~IsPrivilegedReader(currentUser)
  THEN [calls |-> <<"member">>, res |-> checkIsMemberOfProject(currentUser.userId, projectId, svc)]
  ELSE [calls |-> <<>>, res |-> "ok"]

-----------------------------------------------------------------------------
(* getJob *)

\* a returned job: the record, its candidates field (None when the field is absent),
\* and the store that answered
JobResult(job, candidates, src) == [job |-> job, candidates |-> candidates, src |-> src]

\* line 129: the job record built from an index hit
JobRecordOf(jobId, source) ==
  [f \in DOMAIN source \cup {"id"} |-> IF f \in DOMAIN source THEN source[f] ELSE jobId]

\* GetJobTry with the candidates fetched ahead of the permission check
GetJobTry_CandidatesFirst(currentUser, id, env) ==
  LET g == esClientGet(es, id, env.esGet)
      c == _getJobCandidates(id, env.cand)
      p == _checkUserPermissionForGetJob(currentUser, g.doc[1].projectId, env.member)
      jobRecord == JobResult(JobRecordOf(id, g.doc[1]),
                             IF Len(c.list) > 0 THEN Some(c.list) ELSE None, "es")
  IN IF g.err # "none"
     THEN [err |-> g.err, calls |-> <<"esGet">>, result |-> None, perms |-> <<>>]
     ELSE IF c.err # "none"
     THEN [err |-> c.err, calls |-> <<"esGet", "esCandidates">>, result |-> None, perms |-> <<>>]
     ELSE IF p.res # "ok"
     THEN [err |-> p.res, calls |-> <<"esGet", "esCandidates">> \o p.calls, result |-> None,
           perms |-> <<p.res>>]
     ELSE [err |-> "none", calls |-> <<"esGet", "esCandidates">> \o p.calls,
           result |-> Some(jobRecord), perms |-> <<p.res>>]

\* the try block of getJob (the index path): err is "none" when it returned;
\* perms is what the permission checks it reached answered
GetJobTry(currentUser, id, env) ==
  LET g == esClientGet(es, id, env.esGet)
      p == _checkUserPermissionForGetJob(currentUser, g.doc[1].projectId, env.member)
      c == _getJobCandidates(id, env.cand)
      jobRecord == JobResult(JobRecordOf(id, g.doc[1]),
                             IF Len(c.list) > 0 THEN Some(c.list) ELSE None, "es")
  IN IF g.err # "none"
     THEN [err |-> g.err, calls |-> <<"esGet">>, result |-> None, perms |-> <<>>]
     ELSE IF p.res # "ok"
     THEN [err |-> p.res, calls |-> <<"esGet">> \o p.calls, result |-> None, perms |-> <<p.res>>]
     ELSE IF c.err # "none"
     THEN [err |-> c.err, calls |-> <<"esGet">> \o p.calls \o <<"esCandidates">>,
           result |-> None, perms |-> <<p.res>>]
     ELSE [err |-> "none", calls |-> <<"esGet">> \o p.calls \o <<"esCandidates">>,
           result |-> Some(jobRecord), perms |-> <<p.res>>]

\* GetJobCatch without the document-missing branch
GetJobCatch_NoMissing(err) ==
  IF err = "Forbidden" THEN "Forbidden"
  ELSE "fallback"

\* GetJobCatch without the rethrow of a Forbidden
GetJobCatch_NoForbidden(err) ==
  IF isDocumentMissingException(err) THEN "NotFound"
  ELSE "fallback"

\* GetJobCatch that passes every other error on
GetJobCatch_Rethrow(err) ==
  IF isDocumentMissingException(err) THEN "NotFound"
  ELSE err

\* the catch block of getJob: what becomes of an error of the index path
GetJobCatch(err) ==
  IF isDocumentMissingException(err) THEN "NotFound"
  ELSE IF err = "Forbidden" THEN "Forbidden"
  ELSE "fallback"

\* DataValues that loses the audit field of the last update
DataValues_NoUpdatedBy(row) == [row EXCEPT !.updatedBy = 0]

\* lines 150-151: job.dataValues, the attribute values of a row
DataValues(row) == row

\* the relational path of getJob
GetJobDb(currentUser, id, svc) ==
  LET p == _checkUserPermissionForGetJob(currentUser, db[id].projectId, svc)
  IN IF id \notin DOMAIN db
     THEN [outcome |-> "NotFound", calls |-> <<"dbFindById">>, result |-> None, perms |-> <<>>]
     ELSE IF p.res # "ok"
     THEN [outcome |-> p.res, calls |-> <<"dbFindById">> \o p.calls, result |-> None,
           perms |-> <<p.res>>]
     ELSE [outcome |-> "ok", calls |-> <<"dbFindById">> \o p.calls,
           result |-> Some(JobResult(DataValues(db[id]), Some(CandidatesOf(id)), "db")),
           perms |-> <<p.res>>]

\* idxErr: the error the index path raised, "none" when it raised none or was not taken
getJob(currentUser, id, fromDb, env) ==
  LET t == GetJobTry(currentUser, id, env)
      c == GetJobCatch(t.err)
      d == GetJobDb(currentUser, id, IF fromDb THEN env.member ELSE env.member2)
  IN IF fromDb
     THEN [outcome |-> d.outcome, calls |-> d.calls, result |-> d.result, idxErr |-> "none",
           perms |-> d.perms]
     ELSE IF t.err = "none"
     THEN [outcome |-> "ok", calls |-> t.calls, result |-> t.result, idxErr |-> "none",
           perms |-> t.perms]
     ELSE IF c # "fallback"
     THEN [outcome |-> c, calls |-> t.calls, result |-> None, idxErr |-> t.err,
           perms |-> t.perms]
     ELSE [outcome |-> d.outcome, calls |-> t.calls \o d.calls, result |-> d.result,
           idxErr |-> t.err, perms |-> t.perms \o d.perms]

-----------------------------------------------------------------------------
(* The relational store (models.Job) and the event channel *)

Put(f, k, v) == [x \in DOMAIN f \cup {k} |-> IF x = k THEN v ELSE f[x]]

Drop(f, k) == [x \in DOMAIN f \ {k} |-> f[x]]

\* a propagation event as helper.postEvent sends it
Event(topic, id, payload, oldValue) ==
  [topic |-> topic, id |-> id, payload |-> payload, oldValue |-> oldValue]

\* helper.postEvent: the events the channel took, or the error the awaited call raised
postEvent(event, svc) ==
  IF svc = "fail" THEN [err |-> "PublishError", events |-> <<>>]
  ELSE [err |-> "none", events |-> <<event>>]

\* what an operation hands back to its action
Reply(outcome, result, calls, newDb, events) ==
  [outcome |-> outcome, result |-> result, calls |-> calls, db |-> newDb, events |-> events]

\* an operation that stopped: nothing written, nothing published
Fail(outcome, calls) == Reply(outcome, None, calls, db, <<>>)

NoError == [err |-> "none", calls |-> <<>>]

_validateSkills(skills) ==
  [err |-> IF \E i \in 1 .. Len(skills) : skills[i] \notin ValidSkills THEN "BadRequest" ELSE "none",
   calls |-> [i \in 1 .. Len(skills) |-> "skillSvc"]]

\* _validateRoles that finds every role
_validateRoles_FindsAll(roles) == [err |-> "none", calls |-> <<"roleFindAll">>]

_validateRoles(roles) ==
  [err |-> IF Range(roles) \ ValidRoles # {} THEN "BadRequest" ELSE "none",
   calls |-> <<"roleFindAll">>]

-----------------------------------------------------------------------------
(* createJob *)

\* the await of helper.postEvent and the return that follows it in createJob
CreatePublish(created, calls, newDb, svc) ==
  LET e == postEvent(Event("create", created.id, Some(created), None), svc)
  IN IF e.err # "none" THEN Reply(e.err, None, calls \o <<"publish">>, newDb, e.events)
     ELSE Reply("ok", Some(JobResult(created, None, "db")), calls \o <<"publish">>, newDb, e.events)

\* the row Job.create stores for the body job (updatedBy 0: never updated)
NewJob(id, job, createdBy) ==
  [id |-> id, projectId |-> job.projectId, skills |-> job.skills, roleIds |-> job.roleIds,
   isApplicationPageActive |-> job.isApplicationPageActive, createdBy |-> createdBy,
   updatedBy |-> 0]

\* CreateRoleIds without the de-duplication
CreateRoleIds_NoUniq(job) == IF job.roleIds # None THEN Some(job.roleIds[1]) ELSE None

\* lines 178-179: the role ids createJob validates and stores
CreateRoleIds(job) == IF job.roleIds # None THEN Some(Uniq(job.roleIds[1])) ELSE None

createJob(currentUser, job, env) ==
  LET needMember == ~currentUser.hasManagePermission /\ ~currentUser.isMachine
      m == IF needMember THEN checkIsMemberOfProject(currentUser.userId, job.projectId, env.member)
           ELSE "ok"
      c1 == IF needMember THEN <<"member">> ELSE <<>>
      vs == _validateSkills(job.skills)
      roleIds == CreateRoleIds(job)
      vr == IF job.roleIds # None THEN _validateRoles(roleIds[1]) ELSE NoError
      created == NewJob(nextId, [job EXCEPT !.roleIds = roleIds], getUserId(currentUser.userId))
  IN IF m # "ok" THEN Fail(m, c1)
     ELSE IF job.isApplicationPageActive # None /\ ~currentUser.isMachine THEN Fail("Forbidden", c1)
     ELSE IF vs.err # "none" THEN Fail(vs.err, c1 \o vs.calls)
     ELSE IF vr.err # "none" THEN Fail(vr.err, c1 \o vs.calls \o vr.calls)
     ELSE CreatePublish(created, c1 \o vs.calls \o vr.calls \o <<"getUserId", "dbCreate">>,
                        Put(db, nextId, created), env.publish)

-----------------------------------------------------------------------------
(* updateJob (partiallyUpdateJob and fullyUpdateJob both end here) *)

\* instance.update(data): the keys data defines replace the row's
ApplyUpdate(job, data, updatedBy) ==
  [id |-> job.id,
   projectId |-> IF data.projectId # 0 THEN data.projectId ELSE job.projectId,
   skills |-> IF data.skills # None THEN data.skills[1] ELSE job.skills,
   roleIds |-> IF data.roleIds # None THEN data.roleIds[1] ELSE job.roleIds,
   isApplicationPageActive |-> IF data.isApplicationPageActive # None
                               THEN data.isApplicationPageActive ELSE job.isApplicationPageActive,
   createdBy |-> job.createdBy,
   updatedBy |-> updatedBy]

\* the await of helper.postEvent in updateJob, the re-read and the return
UpdatePublish(updated, oldValue, calls, newDb, svc) ==
  LET e == postEvent(Event("update", updated.id, Some(updated), Some(oldValue)), svc)
  IN IF e.err # "none" THEN Reply(e.err, None, calls \o <<"publish">>, newDb, e.events)
     ELSE Reply("ok", Some(JobResult(DataValues(newDb[updated.id]), Some(CandidatesOf(updated.id)), "db")),
                calls \o <<"publish", "dbFindById">>, newDb, e.events)

\* the creator-or-privileged rule of updateJob
UpdateAllowed(currentUser, ubahnUserId, job) ==
  IF ~currentUser.hasManagePermission /\ ~currentUser.isMachine
  THEN ubahnUserId = job.createdBy
  ELSE TRUE

updateJob(currentUser, id, data, env) ==
  LET vs == IF data.skills # None THEN _validateSkills(data.skills[1]) ELSE NoError
      hasRoles == data.roleIds # None /\ data.roleIds[1] # None
      data2 == IF hasRoles THEN [data EXCEPT !.roleIds = Some(Some(Uniq(data.roleIds[1][1])))]
               ELSE data
      vr == IF hasRoles THEN _validateRoles(data2.roleIds[1][1]) ELSE NoError
      c2 == vs.calls \o vr.calls \o <<"dbFindById">>
      ubahnUserId == getUserId(currentUser.userId)
  IN IF vs.err # "none" THEN Fail(vs.err, vs.calls)
     ELSE IF vr.err # "none" THEN Fail(vr.err, vs.calls \o vr.calls)
     ELSE IF id \notin DOMAIN db THEN Fail("NotFound", c2)
     ELSE IF data.isApplicationPageActive # None /\ ~currentUser.isMachine THEN Fail("Forbidden", c2)
     ELSE IF ~UpdateAllowed(currentUser, ubahnUserId, db[id])
          THEN Fail("Forbidden", c2 \o <<"getUserId">>)
     ELSE LET updated == ApplyUpdate(db[id], data2, ubahnUserId)
          IN UpdatePublish(updated, db[id], c2 \o <<"getUserId", "dbUpdate">>,
                           Put(db, id, updated), env.publish)

-----------------------------------------------------------------------------
(* deleteJob *)

\* DeletePublish that publishes nothing
DeletePublish_Silent(id, calls, newDb, svc) == Reply("ok", None, calls, newDb, <<>>)

\* the await of helper.postEvent that ends deleteJob
DeletePublish(id, calls, newDb, svc) ==
  LET e == postEvent(Event("delete", id, None, None), svc)
  IN IF e.err # "none" THEN Reply(e.err, None, calls \o <<"publish">>, newDb, e.events)
     ELSE Reply("ok", None, calls \o <<"publish">>, newDb, e.events)

\* DeleteAllowed that also lets a connect manager through
DeleteAllowed_ConnectManager(currentUser) ==
  currentUser.hasManagePermission \/ currentUser.isMachine \/ currentUser.isConnectManager

\* the permission check of deleteJob
DeleteAllowed(currentUser) == currentUser.hasManagePermission \/ currentUser.isMachine

deleteJob(currentUser, id, env) ==
  IF ~DeleteAllowed(currentUser) THEN Fail("Forbidden", <<>>)
  ELSE IF id \notin DOMAIN db THEN Fail("NotFound", <<"dbFindById">>)
  ELSE DeletePublish(id, <<"dbFindById", "dbDestroy">>, Drop(db, id), env.publish)

-----------------------------------------------------------------------------
(* searchJobs *)

\* perPage when options.returnAll is set
ReturnAllPerPage == 10000
\* perPage when the criteria give none
DefaultPerPage == 20

Min(a, b) == IF a < b THEN a ELSE b

RECURSIVE SortIds(_, _)
\* the ids of S in the given order ("asc" or "desc")
SortIds(S, order) ==
  IF S = {} THEN <<>>
  ELSE LET x == IF order = "asc" THEN CHOOSE a \in S : \A b \in S : a <= b
                ELSE CHOOSE a \in S : \A b \in S : a >= b
       IN <<x>> \o SortIds(S \ {x}, order)

\* rows offset+1 .. offset+limit of a sorted list (from/size of the index, offset/limit of SQL)
PageOf(sorted, offset, limit) == SubSeq(sorted, offset + 1, Min(offset + limit, Len(sorted)))

\* the fields that hold a collection
ArrayFields == {"skills", "roles"}

\* one restriction of a query: the record's field equals one of values (a collection
\* field: holds one of values); the field "_id" / "id" is the record's identity
Clause(field, values) == [field |-> field, values |-> values]

Satisfies(rec, c) ==
  IF c.field \in {"_id", "id"} THEN rec.id \in c.values
  ELSE IF c.field \notin DOMAIN rec THEN FALSE
  ELSE IF c.field \in ArrayFields THEN Range(rec[c.field]) \cap c.values # {}
  ELSE rec[c.field] \in c.values

\* lines 407-445: the must clauses of the index query
EsMust(criteria) ==
  (IF criteria.projectId # 0 THEN <<Clause("projectId", {criteria.projectId})>> ELSE <<>>)
  \o (IF criteria.skill # None THEN <<Clause("skills", {criteria.skill[1]})>> ELSE <<>>)

\* lines 446-461: the filter clauses of the index query
EsFilter(criteria) ==
  (IF criteria.projectIds # None THEN <<Clause("projectId", criteria.projectIds[1])>> ELSE <<>>)
  \o (IF criteria.jobIds # None /\ Len(criteria.jobIds[1]) > 0
      THEN <<Clause("_id", Range(criteria.jobIds[1]))>> ELSE <<>>)

\* lines 485-519: the where clause of the relational query
DbWhere(criteria) ==
  (IF criteria.projectId # 0 THEN <<Clause("projectId", {criteria.projectId})>> ELSE <<>>)
  \o (IF criteria.skill # None THEN <<Clause("skills", {criteria.skill[1]})>> ELSE <<>>)
  \o (IF criteria.jobIds # None /\ Len(criteria.jobIds[1]) > 0
      THEN <<Clause("id", Range(criteria.jobIds[1]))>> ELSE <<>>)

\* the ids of the records of a store that satisfy every clause
Matching(store, clauses) ==
  {id \in DOMAIN store : \A i \in 1 .. Len(clauses) : Satisfies(store[id], clauses[i])}

\* esClient.search on the job index
esClientSearch(index, clauses, from, size, order, svc) ==
  IF svc = "fail" THEN [err |-> "Error", hits |-> <<>>, total |-> 0]
  ELSE LET m == Matching(index, clauses)
       IN [err |-> "none", hits |-> PageOf(SortIds(m, order), from, size), total |-> Cardinality(m)]

\* Job.findAll with the candidates included
JobFindAll(store, where, offset, limit, order) ==
  LET ids == PageOf(SortIds(Matching(store, where), order), offset, limit)
  IN [i \in 1 .. Len(ids) |->
        JobResult(DataValues(store[ids[i]]), Some(CandidatesOf(ids[i])), "db")]

\* SearchPermission without the refusal of a search that names no project
SearchPermission_NoProjectTest(currentUser, criteria, options, svc) ==
  IF ~currentUser.hasManagePermission /\ ~currentUser.isMachine
     /\ ~currentUser.isConnectManager /\ ~options.returnAll
  THEN [res |-> checkIsMemberOfProject(currentUser.userId, criteria.projectId, svc),
        calls |-> <<"member">>]
  ELSE [res |-> "ok", calls |-> <<>>]

\* the permission check that opens searchJobs
SearchPermission(currentUser, criteria, options, svc) ==
  IF ~currentUser.hasManagePermission /\ ~currentUser.isMachine
     /\ ~currentUser.isConnectManager /\ ~options.returnAll
  THEN IF criteria.projectId = 0 THEN [res |-> "Forbidden", calls |-> <<>>]
       ELSE [res |-> checkIsMemberOfProject(currentUser.userId, criteria.projectId, svc),
             calls |-> <<"member">>]
  ELSE [res |-> "ok", calls |-> <<>>]

SearchPage(criteria) == IF criteria.page > 0 THEN criteria.page ELSE 1

\* SearchPerPage that ignores options.returnAll
SearchPerPage_NoReturnAll(criteria, options) ==
  IF criteria.perPage > 0 THEN criteria.perPage ELSE DefaultPerPage

SearchPerPage(criteria, options) ==
  IF options.returnAll THEN ReturnAllPerPage
  ELSE IF criteria.perPage > 0 THEN criteria.perPage ELSE DefaultPerPage

SearchSortOrder(criteria) == IF criteria.sortOrder # None THEN criteria.sortOrder[1] ELSE "desc"

\* the try block of searchJobs (the index path)
SearchJobsTry(criteria, page, perPage, env) ==
  LET r == esClientSearch(es, EsMust(criteria) \o EsFilter(criteria), (page - 1) * perPage, perPage,
                          SearchSortOrder(criteria), env.esGet)
      fetched == [i \in 1 .. Len(r.hits) |-> "esCandidates"]
  IN IF r.err # "none" THEN [err |-> r.err, calls |-> <<"esSearch">>, result |-> None]
     ELSE IF Len(r.hits) > 0 /\ env.cand = "fail"
          THEN [err |-> "Error", calls |-> <<"esSearch">> \o fetched, result |-> None]
     ELSE [err |-> "none", calls |-> <<"esSearch">> \o fetched,
           result |-> Some([total |-> r.total, page |-> page, perPage |-> perPage,
                            result |-> [i \in 1 .. Len(r.hits) |->
                               JobResult([es[r.hits[i]] EXCEPT !.id = r.hits[i]],
                                         IF Len(CandidatesOf(r.hits[i])) > 0
                                         THEN Some(CandidatesOf(r.hits[i])) ELSE None, "es")]])]

\* SearchJobsCatch that passes the error on
SearchJobsCatch_Rethrow(err) == IF err = "none" THEN "none" ELSE "Error"

\* the catch block of searchJobs: every error is logged and the fallback follows
SearchJobsCatch(err) == IF err = "none" THEN "none" ELSE "fallback"

\* lines 484-537: the relational fallback of searchJobs
SearchJobsDb(criteria, page, perPage) ==
  LET jobs == JobFindAll(db, DbWhere(criteria), (page - 1) * perPage, perPage,
                         SearchSortOrder(criteria))
  IN [fromDb |-> TRUE, total |-> Len(jobs), page |-> page, perPage |-> perPage, result |-> jobs]

\* searchJobs that also falls back when the index answers with no hit
searchJobs_FallbackOnEmpty(currentUser, criteria, options, env) ==
  LET p == SearchPermission(currentUser, criteria, options, env.member)
      page == SearchPage(criteria)
      perPage == SearchPerPage(criteria, options)
      t == SearchJobsTry(criteria, page, perPage, env)
      c == SearchJobsCatch(t.err)
  IN IF p.res # "ok"
     THEN [outcome |-> p.res, calls |-> p.calls, result |-> None, idxErr |-> "none",
           perms |-> <<p.res>>]
     ELSE IF t.err = "none" /\ Len(t.result[1].result) > 0
     THEN [outcome |-> "ok", calls |-> p.calls \o t.calls, result |-> t.result,
           idxErr |-> "none", perms |-> <<p.res>>]
     ELSE IF t.err # "none" /\ c # "fallback"
     THEN [outcome |-> c, calls |-> p.calls \o t.calls, result |-> None, idxErr |-> t.err,
           perms |-> <<p.res>>]
     ELSE [outcome |-> "ok", calls |-> p.calls \o t.calls \o <<"dbFindAll">>,
           result |-> Some(SearchJobsDb(criteria, page, perPage)), idxErr |-> t.err,
           perms |-> <<p.res>>]

searchJobs(currentUser, criteria, options, env) ==
  LET p == SearchPermission(currentUser, criteria, options, env.member)
      page == SearchPage(criteria)
      perPage == SearchPerPage(criteria, options)
      t == SearchJobsTry(criteria, page, perPage, env)
      c == SearchJobsCatch(t.err)
  IN IF p.res # "ok"
     THEN [outcome |-> p.res, calls |-> p.calls, result |-> None, idxErr |-> "none",
           perms |-> <<p.res>>]
     ELSE IF t.err = "none"
     THEN [outcome |-> "ok", calls |-> p.calls \o t.calls, result |-> t.result,
           idxErr |-> "none", perms |-> <<p.res>>]
     ELSE IF c # "fallback"
     THEN [outcome |-> c, calls |-> p.calls \o t.calls, result |-> None, idxErr |-> t.err,
           perms |-> <<p.res>>]
     ELSE [outcome |-> "ok", calls |-> p.calls \o t.calls \o <<"dbFindAll">>,
           result |-> Some(SearchJobsDb(criteria, page, perPage)), idxErr |-> t.err,
           perms |-> <<p.res>>]

-----------------------------------------------------------------------------
(* The inputs of the operations *)

AllOk == [esGet |-> "ok", member |-> "ok", member2 |-> "ok", cand |-> "ok", publish |-> "ok"]

\* the environments in which exactly the calls named in failing fail
Failing(failing) == [f \in DOMAIN AllOk |-> IF f \in failing THEN "fail" ELSE "ok"]

\* One environment per way the external calls of an operation can go: a call made
\* after the first failure of the index path of getJob is the membership call of the
\* relational path (member2); searchJobs and the write operations stop, or leave the
\* index path, at the first failure.
GetJobEnvs ==
  {AllOk, Failing({"esGet"}), Failing({"member"}), Failing({"cand"}), Failing({"esGet", "member2"}),
   Failing({"member", "member2"}), Failing({"cand", "member2"})}

SearchJobsEnvs == {AllOk, Failing({"member"}), Failing({"esGet"}), Failing({"cand"})}

CreateJobEnvs == {AllOk, Failing({"member"}), Failing({"publish"})}

WriteEnvs == {AllOk, Failing({"publish"})}

JobInput(projectId, skills, roleIds, isApplicationPageActive) ==
  [projectId |-> projectId, skills |-> skills, roleIds |-> roleIds,
   isApplicationPageActive |-> isApplicationPageActive]

\* bodies the schema of createJob admits
CreateInputs ==
  {JobInput(1, <<"s1">>, None, None),
   JobInput(2, <<"s2">>, Some(<<"r1", "r1">>), None),
   JobInput(1, <<"s1">>, None, Some(TRUE)),
   JobInput(1, <<"sx">>, None, None),
   JobInput(2, <<"sx">>, None, None),
   JobInput(1, <<"s1">>, Some(<<"rx">>), None)}

NoData == JobInput(0, None, None, None)

\* bodies the schema of partiallyUpdateJob admits
PartialData ==
  {[NoData EXCEPT !.skills = Some(<<"s2">>), !.roleIds = Some(Some(<<"r1", "r1">>))],
   [NoData EXCEPT !.roleIds = Some(Some(<<"rx">>))],
   [NoData EXCEPT !.isApplicationPageActive = Some(TRUE)],
   [NoData EXCEPT !.isApplicationPageActive = Some(TRUE), !.skills = Some(<<"sx">>)]}

\* bodies the schema of fullyUpdateJob admits (roleIds defaults to null)
FullData == {JobInput(2, Some(<<"s1">>), Some(None), None)}

NoCriteria ==
  [page |-> 0, perPage |-> 0, sortOrder |-> None, projectId |-> 0, projectIds |-> None,
   jobIds |-> None, skill |-> None]

\* query strings the schema of searchJobs admits
CriteriaSet ==
  {NoCriteria,
   [NoCriteria EXCEPT !.perPage = 1, !.page = 2, !.sortOrder = Some("asc")],
   [NoCriteria EXCEPT !.perPage = -1, !.page = -1],
   [NoCriteria EXCEPT !.projectId = 1, !.skill = Some("s1")],
   [NoCriteria EXCEPT !.jobIds = Some(<<1>>), !.projectIds = Some({2})]}

OptionsSet == {[returnAll |-> FALSE], [returnAll |-> TRUE]}

\* the criteria and options of the searchJobs requests
SearchInputs ==
  (CriteriaSet \X {[returnAll |-> FALSE]}) \cup ({NoCriteria} \X {[returnAll |-> TRUE]})

-----------------------------------------------------------------------------
(* State *)

\* db:     the relational store, job id -> row
\* es:     the job index, job id -> document
\* queue:  the events the channel took and the projector has not applied yet
\* nextId: the id uuid() mints next
\* last:   the last request and what became of it, NoLast once it is forgotten
\* fresh:  job id -> the body createJob was given, for the jobs createJob returned
\*         and no request has updated or deleted since
\* projectedSince: the projector changed the index after the getJob in last returned
\* nWrites: the number of requests that wrote to the relational store
\* reqs:   the requests in flight, each with the position it has reached and the
\*         values it holds; they stay idle where every operation is one action

Procs == 1 .. MaxProcs

\* a request slot that holds no request.  Of a request in flight: snapshot is the row
\* Job.findById loaded; updated is the instance job.update returned; before is, once
\* the request has written, what the store held for the job right before that write;
\* clean tells that no other request wrote to the job between the load and the write;
\* event is the event the request published
Idle ==
  [pc |-> "idle", op |-> "none", caller |-> Mgr, id |-> 0, data |-> NoData, snapshot |-> None,
   updated |-> None, before |-> None, clean |-> TRUE, event |-> None, outcome |-> "none",
   result |-> None]

NoLast ==
  [op |-> "none", caller |-> Mgr, id |-> 0, arg |-> None, outcome |-> "none", result |-> None,
   calls |-> <<>>, idxErr |-> "none", perms |-> <<>>, events |-> <<>>, prior |-> None]

\* The stores outlive the service.  It starts on empty stores, or on stores that hold
\* one job an earlier createJob stored and the projector indexed; the third of these
\* jobs was also moved to project 2 by a full update of its creator.
SeedJobs ==
  {NewJob(1, JobInput(1, <<"s1">>, None, None), getUserId(U1.userId)),
   NewJob(1, JobInput(2, <<"s2">>, Some(<<"r1">>), None), getUserId(Mgr.userId)),
   ApplyUpdate(NewJob(1, JobInput(1, <<"s1">>, None, None), getUserId(U1.userId)),
               JobInput(2, Some(<<"s1">>), Some(None), None), getUserId(U1.userId))}

Init ==
  /\ \/ db = <<>> /\ nextId = 1
     \/ \E j \in SeedJobs : db = Put(<<>>, 1, j) /\ nextId = 2
  /\ es = db
  /\ queue = <<>>
  /\ last = NoLast
  /\ fresh = <<>>
  /\ projectedSince = FALSE
  /\ nWrites = 0
  /\ reqs = [p \in Procs |-> Idle]

\* last for a request: r is what the operation handed back
Last(op, caller, id, arg, r, prior) ==
  [op |-> op, caller |-> caller, id |-> id, arg |-> arg, outcome |-> r.outcome,
   result |-> r.result, calls |-> r.calls,
   idxErr |-> IF "idxErr" \in DOMAIN r THEN r.idxErr ELSE "none",
   perms |-> IF "perms" \in DOMAIN r THEN r.perms ELSE <<>>,
   events |-> IF "events" \in DOMAIN r THEN r.events ELSE <<>>,
   prior |-> prior]

Wrote(r) == Range(r.calls) \cap {"dbCreate", "dbUpdate", "dbDestroy"} # {}

\* the bound on the writing requests, and the count of them
Budget(r) ==
  /\ Wrote(r) => nWrites < MaxWrites
  /\ nWrites' = IF Wrote(r) THEN nWrites + 1 ELSE nWrites

\* last is a getJob that returned a job
Returned == last.op = "getJob" /\ last.outcome = "ok"

\* A request is recorded in last until Return forgets it.  The request that follows
\* a first getJob that returned may be a getJob of the same id by the same caller:
\* it records in prior what the first one returned, and whether the projector
\* changed the index between the two.
GetJob ==
  /\ \E currentUser \in Callers, id \in JobIds, fromDb \in BOOLEAN, env \in GetJobEnvs :
       /\ \/ last = NoLast
          \/ Returned /\ last.prior = None /\ last.id = id /\ last.caller = currentUser
       /\ LET r == getJob(currentUser, id, fromDb, env)
          IN last' = Last("getJob", currentUser, id, fromDb, r,
                          IF Returned
                          THEN Some([job |-> last.result[1].job, src |-> last.result[1].src,
                                     projected |-> projectedSince])
                          ELSE None)
  /\ projectedSince' = FALSE
  /\ UNCHANGED <<db, es, queue, nextId, fresh, nWrites, reqs>>

SearchJobs ==
  /\ last = NoLast
  /\ \E currentUser \in Callers, in \in SearchInputs, env \in SearchJobsEnvs :
       LET r == searchJobs(currentUser, in[1], in[2], env)
       IN last' = Last("searchJobs", currentUser, 0, in, r, None)
  /\ UNCHANGED <<db, es, queue, nextId, fresh, projectedSince, nWrites, reqs>>

CreateJob ==
  /\ last = NoLast
  /\ \E currentUser \in Callers, job \in CreateInputs, env \in CreateJobEnvs :
       LET r == createJob(currentUser, job, env)
       IN /\ Budget(r)
          /\ last' = Last("createJob", currentUser, nextId, job, r, None)
          /\ db' = r.db
          /\ queue' = queue \o r.events
          /\ nextId' = IF Wrote(r) THEN nextId + 1 ELSE nextId
          /\ fresh' = IF r.outcome = "ok" THEN Put(fresh, nextId, job) ELSE fresh
  /\ UNCHANGED <<es, projectedSince, reqs>>

UpdateJob ==
  /\ last = NoLast
  /\ \E currentUser \in Callers, id \in JobIds, data \in PartialData \cup FullData,
        env \in WriteEnvs :
       LET r == updateJob(currentUser, id, data, env)
       IN /\ Budget(r)
          /\ last' = Last("updateJob", currentUser, id, data, r, None)
          /\ db' = r.db
          /\ queue' = queue \o r.events
          /\ fresh' = IF Wrote(r) THEN Drop(fresh, id) ELSE fresh
  /\ UNCHANGED <<es, nextId, projectedSince, reqs>>

DeleteJob ==
  /\ last = NoLast
  /\ \E currentUser \in Callers, id \in JobIds, env \in WriteEnvs :
       LET r == deleteJob(currentUser, id, env)
       IN /\ Budget(r)
          /\ last' = Last("deleteJob", currentUser, id, None, r, None)
          /\ db' = r.db
          /\ queue' = queue \o r.events
          /\ fresh' = IF Wrote(r) THEN Drop(fresh, id) ELSE fresh
  /\ UNCHANGED <<es, nextId, projectedSince, reqs>>

\* the request in last is forgotten
Return ==
  /\ last # NoLast
  /\ last' = NoLast
  /\ projectedSince' = FALSE
  /\ UNCHANGED <<db, es, queue, nextId, fresh, nWrites, reqs>>

\* the projector (an external consumer of the events): it applies the oldest event,
\* between two requests or after a first getJob returned
Project ==
  /\ queue # <<>>
  /\ last = NoLast \/ (Returned /\ last.prior = None)
  /\ LET e == Head(queue)
     IN es' = IF e.topic = "delete" THEN Drop(es, e.id) ELSE Put(es, e.id, e.payload[1])
  /\ queue' = Tail(queue)
  /\ projectedSince' = (projectedSince \/ Returned)
  /\ UNCHANGED <<db, nextId, last, fresh, nWrites, reqs>>

Next == GetJob \/ SearchJobs \/ CreateJob \/ UpdateJob \/ DeleteJob \/ Return \/ Project

Spec == Init /\ [][Next]_vars

-----------------------------------------------------------------------------
(* updateJob and deleteJob await by await (SpecC): the requests in flight     *)
(* take their steps in any order; a step is the code between two awaits that  *)
(* touches the relational store or the event channel.  The requests are on    *)
(* one job, by callers the operations admit, with data that pass validation;  *)
(* the event channel takes every event.                                      *)

\* the job the concurrent requests are about
ConcJob == NewJob(1, JobInput(1, <<"s1">>, None, None), getUserId(U1.userId))

ConcCallers == {Mgr, U1}

ConcData ==
  {[NoData EXCEPT !.skills = Some(<<"s2">>)],
   [NoData EXCEPT !.roleIds = Some(Some(<<"r1", "r1">>))]}

InitC ==
  /\ db = Put(<<>>, ConcJob.id, ConcJob)
  /\ es = db
  /\ nextId = ConcJob.id + 1
  /\ queue = <<>>
  /\ last = NoLast
  /\ fresh = <<>>
  /\ projectedSince = FALSE
  /\ nWrites = 0
  /\ reqs = [p \in Procs |-> Idle]

\* the request of p moves on: its fields change as in r
Step(p, r) == reqs' = [reqs EXCEPT ![p] = r]

\* the request of p ends with an error
Throw(p, outcome) == Step(p, [reqs[p] EXCEPT !.pc = "done", !.outcome = outcome])

\* the request of p writes to its job: the requests that loaded the job and have not
\* written yet no longer hold the stored state
StepWrite(p, r) ==
  reqs' = [q \in Procs |->
             IF q = p THEN r
             ELSE IF reqs[q].pc \in {"update", "destroy"} /\ reqs[q].id = reqs[p].id
                  THEN [reqs[q] EXCEPT !.clean = FALSE]
                  ELSE reqs[q]]

\* lines 228-229: the data of updateJob with its role ids de-duplicated
UniqRoleIds(data) ==
  IF data.roleIds # None /\ data.roleIds[1] # None
  THEN [data EXCEPT !.roleIds = Some(Some(Uniq(data.roleIds[1][1])))]
  ELSE data

\* UpdateEvent that sends the new state as the prior one
UpdateEvent_NewAsOld(updated, oldValue) ==
  Event("update", updated.id, Some(updated), Some(updated))

\* line 252: the event of an update
UpdateEvent(updated, oldValue) == Event("update", updated.id, Some(updated), Some(oldValue))

\* a request arrives
Accept(p) ==
  /\ reqs[p].pc = "idle"
  /\ \E currentUser \in ConcCallers :
       \/ \E data \in ConcData :
            Step(p, [Idle EXCEPT !.pc = "load", !.op = "updateJob", !.caller = currentUser,
                                 !.id = ConcJob.id, !.data = data])
       \/ Step(p, [Idle EXCEPT !.pc = "load", !.op = "deleteJob", !.caller = currentUser,
                               !.id = ConcJob.id])
  /\ UNCHANGED <<db, es, queue, nextId, last, fresh, projectedSince, nWrites>>

\* updateJob, lines 224-247: validation, Job.findById, oldValue, the permission rules
UpdateLoad(p) ==
  /\ reqs[p].pc = "load" /\ reqs[p].op = "updateJob"
  /\ LET r == reqs[p]
         vs == IF r.data.skills # None THEN _validateSkills(r.data.skills[1]) ELSE NoError
         data == UniqRoleIds(r.data)
         vr == IF data.roleIds # None /\ data.roleIds[1] # None
               THEN _validateRoles(data.roleIds[1][1]) ELSE NoError
     IN IF vs.err # "none" THEN Throw(p, vs.err)
        ELSE IF vr.err # "none" THEN Throw(p, vr.err)
        ELSE IF r.id \notin DOMAIN db THEN Throw(p, "NotFound")
        ELSE IF r.data.isApplicationPageActive # None /\ ~r.caller.isMachine
        THEN Throw(p, "Forbidden")
        ELSE IF ~UpdateAllowed(r.caller, getUserId(r.caller.userId), db[r.id])
        THEN Throw(p, "Forbidden")
        ELSE Step(p, [r EXCEPT !.pc = "update", !.data = data, !.snapshot = Some(db[r.id])])
  /\ UNCHANGED <<db, es, queue, nextId, last, fresh, projectedSince, nWrites>>

\* updateJob, lines 249-251: job.update(data) sets the keys of data on the loaded
\* instance and writes those columns to the row, if the row is still there
UpdateWrite(p) ==
  /\ reqs[p].pc = "update"
  /\ LET r == reqs[p]
         ubahnUserId == getUserId(r.caller.userId)
     IN /\ db' = IF r.id \in DOMAIN db
                 THEN Put(db, r.id, ApplyUpdate(db[r.id], r.data, ubahnUserId))
                 ELSE db
        /\ StepWrite(p, [r EXCEPT !.pc = "post",
                                  !.updated = Some(ApplyUpdate(r.snapshot[1], r.data, ubahnUserId)),
                                  !.before = Some(IF r.id \in DOMAIN db THEN Some(db[r.id])
                                                  ELSE None)])
  /\ UNCHANGED <<es, queue, nextId, last, fresh, projectedSince, nWrites>>

\* updateJob, line 252: the event with the new state and the snapshot
UpdatePost(p) ==
  /\ reqs[p].pc = "post" /\ reqs[p].op = "updateJob"
  /\ LET e == UpdateEvent(reqs[p].updated[1], reqs[p].snapshot[1])
     IN /\ queue' = Append(queue, e)
        /\ Step(p, [reqs[p] EXCEPT !.pc = "reread", !.event = Some(e)])
  /\ UNCHANGED <<db, es, nextId, last, fresh, projectedSince, nWrites>>

\* updateJob, lines 253-255: the job is read again and returned
UpdateReread(p) ==
  /\ reqs[p].pc = "reread"
  /\ IF reqs[p].id \notin DOMAIN db THEN Throw(p, "NotFound")
     ELSE Step(p, [reqs[p] EXCEPT
                     !.pc = "done", !.outcome = "ok",
                     !.result = Some(JobResult(DataValues(db[reqs[p].id]),
                                               Some(CandidatesOf(reqs[p].id)), "db"))])
  /\ UNCHANGED <<db, es, queue, nextId, last, fresh, projectedSince, nWrites>>

\* deleteJob, lines 340-344: the permission check and Job.findById
DeleteLoad(p) ==
  /\ reqs[p].pc = "load" /\ reqs[p].op = "deleteJob"
  /\ IF ~DeleteAllowed(reqs[p].caller) THEN Throw(p, "Forbidden")
     ELSE IF reqs[p].id \notin DOMAIN db THEN Throw(p, "NotFound")
     ELSE Step(p, [reqs[p] EXCEPT !.pc = "destroy", !.snapshot = Some(db[reqs[p].id])])
  /\ UNCHANGED <<db, es, queue, nextId, last, fresh, projectedSince, nWrites>>

\* deleteJob, line 345: job.destroy()
DeleteDestroy(p) ==
  /\ reqs[p].pc = "destroy"
  /\ db' = Drop(db, reqs[p].id)
  /\ StepWrite(p, [reqs[p] EXCEPT !.pc = "post",
                                  !.before = Some(IF reqs[p].id \in DOMAIN db
                                                  THEN Some(db[reqs[p].id]) ELSE None)])
  /\ UNCHANGED <<es, queue, nextId, last, fresh, projectedSince, nWrites>>

\* deleteJob, line 346: the delete event
DeletePost(p) ==
  /\ reqs[p].pc = "post" /\ reqs[p].op = "deleteJob"
  /\ LET e == Event("delete", reqs[p].id, None, None)
     IN /\ queue' = Append(queue, e)
        /\ Step(p, [reqs[p] EXCEPT !.pc = "done", !.outcome = "ok", !.event = Some(e)])
  /\ UNCHANGED <<db, es, nextId, last, fresh, projectedSince, nWrites>>

NextC ==
  \E p \in Procs :
    \/ Accept(p)
    \/ UpdateLoad(p)
    \/ UpdateWrite(p)
    \/ UpdatePost(p)
    \/ UpdateReread(p)
    \/ DeleteLoad(p)
    \/ DeleteDestroy(p)
    \/ DeletePost(p)

SpecC == InitC /\ [][NextC]_vars

-----------------------------------------------------------------------------
(* Properties.  They are stated on last: the request, the calls it made in   *)
(* order, the answers of its permission checks and what it handed back.      *)

ReadOps == {"getJob", "searchJobs"}

WriteOps == {"createJob", "updateJob", "deleteJob"}

IndexCalls == {"esGet", "esSearch", "esCandidates"}

RelationalReads == {"dbFindById", "dbFindAll"}

RelationalWrites == {"dbCreate", "dbUpdate", "dbDestroy"}

StoreCalls == IndexCalls \cup RelationalReads \cup RelationalWrites

Denied == "Forbidden" \in Range(last.perms)

\* the caller is privileged, or a member of the project
Permitted(caller, projectId) ==
  IsPrivilegedReader(caller) \/ <<caller.userId, projectId>> \in Members

\* the job the getJob in last returned
LastJob == last.result[1].job

\* C1: a searchJobs that passes the permission check and whose index path throws
\* (index query or candidate fetch) returns, without error, the rows of the relational
\* query for the same criteria, page, page size and sort, tagged fromDb = TRUE; a
\* result the index answered carries no fromDb tag.  (The relational store answers.)
C1_SearchFallback ==
  last.op = "searchJobs" =>
    /\ (last.perms = <<"ok">> /\ last.idxErr # "none") =>
         /\ last.outcome = "ok"
         /\ last.result # None
         /\ "fromDb" \in DOMAIN last.result[1]
         /\ last.result[1].fromDb = TRUE
         /\ last.result[1].result =
              JobFindAll(db, DbWhere(last.arg[1]),
                         (SearchPage(last.arg[1]) - 1) * SearchPerPage(last.arg[1], last.arg[2]),
                         SearchPerPage(last.arg[1], last.arg[2]), SearchSortOrder(last.arg[1]))
         /\ last.result[1].page = SearchPage(last.arg[1])
         /\ last.result[1].perPage = SearchPerPage(last.arg[1], last.arg[2])
    /\ (last.outcome = "ok" /\ "dbFindAll" \notin Range(last.calls)) =>
         "fromDb" \notin DOMAIN last.result[1]

\* the candidate fetch of a search failed and the fallback returned a row
C1_Witness ==
  /\ last.op = "searchJobs"
  /\ last.idxErr = "Error"
  /\ "esCandidates" \in Range(last.calls)
  /\ last.outcome = "ok"
  /\ Len(last.result[1].result) > 0
  /\ last.result[1].fromDb

\* C2: a getJob with fromDb = false whose index read answers document-missing fails
\* with NotFound, and the request never queries the relational store.
C2_MissingIsNotFound ==
  (last.op = "getJob" /\ last.arg = FALSE /\ last.idxErr = "DocumentMissing") =>
    /\ last.outcome = "NotFound"
    /\ last.result = None
    /\ Range(last.calls) \cap (RelationalReads \cup RelationalWrites) = {}

\* the index misses a job the relational store holds
C2_Witness ==
  /\ last.op = "getJob"
  /\ last.arg = FALSE
  /\ last.idxErr = "DocumentMissing"
  /\ last.id \in DOMAIN db
  /\ last.outcome = "NotFound"

\* C3: in getJob and searchJobs a Forbidden of the permission check is surfaced as
\* Forbidden and never starts the relational fallback: the denial is the only one of
\* the request, nothing is returned, and after a denial on the index path no
\* relational query is issued.
C3_ForbiddenSurfaced ==
  (last.op \in ReadOps /\ Denied) =>
    /\ last.outcome = "Forbidden"
    /\ last.result = None
    /\ Count(last.perms, "Forbidden") = 1
    /\ last.perms[Len(last.perms)] = "Forbidden"
    /\ last.idxErr = "Forbidden" => Range(last.calls) \cap RelationalReads = {}
    /\ "dbFindAll" \notin Range(last.calls)

\* the permission check of the index path of getJob denied, for a job both stores hold
C3_Witness ==
  /\ last.op = "getJob"
  /\ last.arg = FALSE
  /\ last.idxErr = "Forbidden"
  /\ last.outcome = "Forbidden"
  /\ last.id \in DOMAIN db

\* C4 as stated: when the permission check of a read denies, the request has queried
\* neither the index nor the relational store.
C4_NoStoreBeforeDenial ==
  (last.op \in ReadOps /\ Denied) => Range(last.calls) \cap StoreCalls = {}

\* C4: when the permission check of searchJobs denies, the request has queried no
\* store; when the permission check of getJob denies, the one store access before the
\* denial is the read of the job whose project the check is about (the index read, or
\* the relational read when the index path was left or skipped before its check), and
\* no store is queried after the denial.
C4_DenialAndStoreAccess ==
  (last.op \in ReadOps /\ Denied) =>
    LET n == Len(last.calls)
        k == FirstIndex(last.perms, "Forbidden")
    IN /\ k = Len(last.perms)
       /\ last.op = "searchJobs" => Range(last.calls) \cap StoreCalls = {}
       /\ last.op = "getJob" =>
            /\ n >= 2
            /\ last.calls[n] = "member"
            /\ last.calls[n - 1] = (IF last.idxErr = "Forbidden" THEN "esGet" ELSE "dbFindById")
            /\ (last.arg = TRUE \/ last.idxErr = "Forbidden") => n = 2

\* the permission check of the relational path of getJob denied
C4_Witness ==
  /\ last.op = "getJob"
  /\ last.arg = TRUE
  /\ Denied
  /\ last.calls = <<"dbFindById", "member">>

\* C5 as stated: an updateJob whose data holds isApplicationPageActive, by a caller
\* that is no machine, fails with Forbidden, writes nothing and publishes nothing,
\* whatever the other fields and whatever the relational store holds.
C5_FlagUpdateForbidden ==
  (last.op = "updateJob" /\ last.arg.isApplicationPageActive # None /\ ~last.caller.isMachine) =>
    /\ last.outcome = "Forbidden"
    /\ ~Wrote(last)
    /\ "publish" \notin Range(last.calls)
    /\ last.events = <<>>

\* C6: a deleteJob by a caller with neither management permission nor a machine
\* identity fails with Forbidden without reading or modifying the relational store
\* (the job stays) and without publishing an event.
C6_DeleteForbidden ==
  [][(last = NoLast /\ last'.op = "deleteJob"
      /\ ~last'.caller.hasManagePermission /\ ~last'.caller.isMachine) =>
       /\ last'.outcome = "Forbidden"
       /\ last'.calls = <<>>
       /\ last'.events = <<>>
       /\ db' = db
       /\ queue' = queue]_vars

\* a connect manager was refused the delete of a job the store holds
C6_Witness ==
  /\ last.op = "deleteJob"
  /\ last.caller = CM
  /\ last.id \in DOMAIN db
  /\ last.outcome = "Forbidden"

\* C7 as stated: when the relational write succeeded and the publish that follows
\* fails, the operation still completes and returns the write result.
C7_PublishFailureIsolated ==
  (last.op \in WriteOps /\ Wrote(last) /\ "publish" \in Range(last.calls) /\ last.events = <<>>) =>
    /\ last.outcome = "ok"
    /\ last.op # "deleteJob" => last.result # None

\* C8: a createJob, updateJob or deleteJob request invokes the publish of one
\* propagation event when its relational write succeeded and of none otherwise, the
\* publish comes after the write, the channel takes at most that one event, and a
\* request rejected by permission, validation or NotFound publishes nothing.
C8_OnePublishAfterWrite ==
  last.op \in WriteOps =>
    /\ Count(last.calls, "publish") = (IF Wrote(last) THEN 1 ELSE 0)
    /\ Wrote(last) =>
         /\ Cardinality({i \in 1 .. Len(last.calls) : last.calls[i] \in RelationalWrites}) = 1
         /\ \A i, j \in 1 .. Len(last.calls) :
              (last.calls[i] \in RelationalWrites /\ last.calls[j] = "publish") => i < j
    /\ Len(last.events) = (IF last.outcome = "ok" THEN 1 ELSE 0)
    /\ last.outcome = "ok" => Wrote(last)
    /\ last.outcome \in {"Forbidden", "BadRequest", "NotFound", "Error"} =>
         (~Wrote(last) /\ "publish" \notin Range(last.calls))

\* an updateJob wrote the row and then published its one event
C8_Witness ==
  /\ last.op = "updateJob"
  /\ last.outcome = "ok"
  /\ Len(last.events) = 1
  /\ last.events[1].topic = "update"
  /\ last.calls[Len(last.calls) - 1] = "publish"

\* last is a getJob, by a permitted caller and with the membership service up, of a
\* job createJob returned and no request has updated or deleted since
RoundTripCase ==
  /\ last.op = "getJob"
  /\ last.id \in DOMAIN fresh
  /\ Permitted(last.caller, fresh[last.id].projectId)
  /\ "Error" \notin Range(last.perms)

\* the job returned holds the skills and the de-duplicated role ids of the body
RoundTripValues ==
  /\ LastJob.skills = fresh[last.id].skills
  /\ LastJob.roleIds = (IF fresh[last.id].roleIds # None
                        THEN Some(Uniq(fresh[last.id].roleIds[1])) ELSE None)

\* C9 as stated: a getJob of a created job, by a permitted caller and with no update
\* or delete since, returns the job with the skills of the body and its de-duplicated
\* role ids.
C9_RoundTrip == RoundTripCase => (last.outcome = "ok" /\ RoundTripValues)

\* C9: such a getJob returns the job with the skills of the body and its
\* de-duplicated role ids, or it fails with NotFound, which it does only with
\* fromDb = false while the index does not hold the job yet.
C9_RoundTripOnceIndexed ==
  RoundTripCase =>
    \/ last.outcome = "ok" /\ RoundTripValues
    \/ /\ last.outcome = "NotFound"
       /\ last.arg = FALSE
       /\ last.idxErr = "DocumentMissing"
       /\ last.id \notin DOMAIN es

\* the index answered the getJob of a job created with a repeated role id
C9_Witness ==
  /\ RoundTripCase
  /\ last.outcome = "ok"
  /\ last.result[1].src = "es"
  /\ fresh[last.id].roleIds = Some(<<"r1", "r1">>)
  /\ LastJob.roleIds = Some(<<"r1">>)

\* last is the second of two getJob of one id by one caller that both returned
RepeatCase == last.op = "getJob" /\ last.prior # None /\ last.outcome = "ok"

\* the index holds for the job in last what the relational store holds
InSync == last.id \in DOMAIN es /\ last.id \in DOMAIN db /\ es[last.id] = db[last.id]

Unprivileged(caller) ==
  ~caller.hasManagePermission /\ ~caller.isMachine /\ ~caller.isConnectManager

\* the jobs the searchJobs in last returned
LastRows == last.result[1].result

\* C11: a searchJobs by a caller without management permission, machine identity or
\* connect-manager role, with returnAll false and no projectId in the criteria, fails
\* with Forbidden and calls neither the membership service nor a store.
C11_SearchWithoutProject ==
  (last.op = "searchJobs" /\ Unprivileged(last.caller) /\ ~last.arg[2].returnAll
   /\ last.arg[1].projectId = 0) =>
    /\ last.outcome = "Forbidden"
    /\ last.result = None
    /\ last.calls = <<>>

\* such a search was refused while the stores hold a job
C11_Witness ==
  /\ last.op = "searchJobs"
  /\ last.caller = U1
  /\ ~last.arg[2].returnAll
  /\ last.arg[1].projectId = 0
  /\ last.outcome = "Forbidden"
  /\ DOMAIN db # {}
  /\ DOMAIN es # {}

\* C12 as stated: every job a searchJobs returns to a caller without management
\* permission, machine identity or connect-manager role, on either path and with any
\* options, is of a project for which that call verified the caller's membership.
C12_SearchProjectScoped ==
  (last.op = "searchJobs" /\ Unprivileged(last.caller) /\ last.outcome = "ok") =>
    \A i \in 1 .. Len(LastRows) :
      /\ "member" \in Range(last.calls)
      /\ LastRows[i].job.projectId = last.arg[1].projectId
      /\ <<last.caller.userId, LastRows[i].job.projectId>> \in Members

\* the candidates field is absent, or holds a list that is not empty
CandidatesWellFormed(r) == r.candidates = None \/ Len(r.candidates[1]) > 0

\* C13 as stated: in every job getJob or searchJobs returns, from the index path and
\* from the relational path alike, the candidates field is absent when the job has no
\* candidates and a non-empty list otherwise.
C13_NoEmptyCandidates ==
  /\ (last.op = "getJob" /\ last.outcome = "ok") =>
       /\ CandidatesWellFormed(last.result[1])
       /\ (last.result[1].candidates = None) = (CandidatesOf(last.id) = <<>>)
  /\ (last.op = "searchJobs" /\ last.outcome = "ok") =>
       \A i \in 1 .. Len(LastRows) :
         /\ CandidatesWellFormed(LastRows[i])
         /\ (LastRows[i].candidates = None) = (CandidatesOf(LastRows[i].job.id) = <<>>)

\* C14 as stated: in getJob, searchJobs and createJob the membership service is never
\* called for a caller with the connect-manager role, and the caller is not refused
\* for lack of membership.
C14_ConnectManagerExempt ==
  (last.op \in {"getJob", "searchJobs", "createJob"} /\ last.caller.isConnectManager) =>
    /\ "member" \notin Range(last.calls)
    /\ ~Denied

\* the caller of updateJob that the creator rule applies to
NotPrivilegedWriter(caller) == ~caller.hasManagePermission /\ ~caller.isMachine

\* C15 as stated: an updateJob by a caller with neither management permission nor a
\* machine identity whose resolved user id differs from the job's createdBy fails
\* with Forbidden, leaves the stored job unchanged and publishes no event; a
\* successful update records the caller's resolved user id as updatedBy.
C15_CreatorRule ==
  last.op = "updateJob" =>
    /\ (NotPrivilegedWriter(last.caller) /\ last.id \in DOMAIN db
        /\ getUserId(last.caller.userId) # db[last.id].createdBy) =>
         /\ last.outcome = "Forbidden"
         /\ ~Wrote(last)
         /\ last.events = <<>>
    /\ last.outcome = "ok" =>
         /\ db[last.id].updatedBy = getUserId(last.caller.userId)
         /\ last.result[1].job.updatedBy = getUserId(last.caller.userId)

\* C16 as stated: an updateJob by a caller that is not privileged succeeds only if
\* the caller is a member of the job's project at the time of the update; for a
\* caller that is not, the update does not succeed and the stored job is unchanged.
C16_UpdateNeedsMembership ==
  [][(last = NoLast /\ last'.op = "updateJob" /\ NotPrivilegedWriter(last'.caller)
      /\ last'.id \in DOMAIN db
      /\ <<last'.caller.userId, db[last'.id].projectId>> \notin Members) =>
       /\ last'.outcome # "ok"
       /\ db' = db]_vars

\* the skill ids and the role ids the createJob or updateJob in last was given
GivenSkills ==
  IF last.op = "createJob" THEN last.arg.skills
  ELSE IF last.arg.skills # None THEN last.arg.skills[1] ELSE <<>>

GivenRoles ==
  IF last.op = "createJob"
  THEN (IF last.arg.roleIds # None THEN last.arg.roleIds[1] ELSE <<>>)
  ELSE IF last.arg.roleIds # None /\ last.arg.roleIds[1] # None
       THEN last.arg.roleIds[1][1] ELSE <<>>

\* last is a createJob or updateJob given a skill id or a role id that does not exist
InvalidIdsCase ==
  /\ last.op \in {"createJob", "updateJob"}
  /\ Range(GivenSkills) \ ValidSkills # {} \/ Range(GivenRoles) \ ValidRoles # {}

\* nothing was written and nothing was published
StoppedBeforeWrite ==
  ~Wrote(last) /\ "publish" \notin Range(last.calls) /\ last.events = <<>>

\* a request that wrote role ids stored them de-duplicated
RolesStoredUnique ==
  (last.op \in {"createJob", "updateJob"} /\ Wrote(last) /\ GivenRoles # <<>>) =>
    db[last.id].roleIds = Some(Uniq(GivenRoles))

IndexMatches == Matching(es, EsMust(last.arg[1]) \o EsFilter(last.arg[1]))

\* C18: a searchJobs whose index query succeeds with zero hits returns an empty result
\* list with the total of the index and never queries the relational store; the
\* fallback is entered only when the index path raised an error.
C18_ZeroHitsNoFallback ==
  last.op = "searchJobs" =>
    /\ "dbFindAll" \in Range(last.calls) => last.idxErr # "none"
    /\ (last.perms = <<"ok">> /\ last.idxErr = "none") =>
         /\ last.outcome = "ok"
         /\ Range(last.calls) \cap (RelationalReads \cup RelationalWrites) = {}
         /\ last.result[1].total = Cardinality(IndexMatches)
         /\ IndexMatches = {} => (LastRows = <<>> /\ last.result[1].total = 0)

\* the index had no hit for a search that the relational store has a row for
C18_Witness ==
  /\ last.op = "searchJobs"
  /\ last.outcome = "ok"
  /\ last.idxErr = "none"
  /\ LastRows = <<>>
  /\ last.result[1].total = 0
  /\ Matching(db, DbWhere(last.arg[1])) # {}

\* the page and the page size the searchJobs in last is to use
NormalPage == IF last.arg[1].page >= 1 THEN last.arg[1].page ELSE 1

NormalPerPage ==
  IF last.arg[2].returnAll THEN 10000
  ELSE IF last.arg[1].perPage > 0 THEN last.arg[1].perPage ELSE 20

\* the ids a query selects, in the order of the search, cut to the normalised page
NormalPageIds(matches) ==
  LET sorted == SortIds(matches, SearchSortOrder(last.arg[1]))
      offset == (NormalPage - 1) * NormalPerPage
  IN [i \in 1 .. Min(NormalPerPage, IF Len(sorted) > offset THEN Len(sorted) - offset ELSE 0)
        |-> sorted[offset + i]]

\* C19: searchJobs normalises pagination the same way on both paths: page is the
\* requested page if it is at least 1 and 1 otherwise; perPage is 10000 when returnAll
\* is set, otherwise the requested perPage if greater than 0 and 20 otherwise; the
\* index query and the fallback query return the rows from offset (page - 1) * perPage
\* on, at most perPage of them, and the result carries the normalised page and perPage.
C19_Pagination ==
  (last.op = "searchJobs" /\ last.outcome = "ok") =>
    /\ last.result[1].page = NormalPage
    /\ last.result[1].perPage = NormalPerPage
    /\ [i \in 1 .. Len(LastRows) |-> LastRows[i].job.id] =
         NormalPageIds(IF "dbFindAll" \in Range(last.calls)
                       THEN Matching(db, DbWhere(last.arg[1])) ELSE IndexMatches)

\* the index answered page 2 of size 1 with the second of two jobs
C19_Witness ==
  /\ last.op = "searchJobs"
  /\ last.outcome = "ok"
  /\ last.idxErr = "none"
  /\ last.arg[1].page = 2
  /\ last.arg[1].perPage = 1
  /\ Cardinality(IndexMatches) = 2
  /\ Len(LastRows) = 1
  /\ LastRows[1].job.id = 2

\* C20 as stated: every job searchJobs returns, from either path, satisfies every
\* exact-match and set filter present in the criteria (here projectId, projectIds,
\* jobIds and skill).
C20_FiltersOnBothPaths ==
  (last.op = "searchJobs" /\ last.outcome = "ok") =>
    \A i \in 1 .. Len(LastRows) :
      LET job == LastRows[i].job
          c == last.arg[1]
      IN /\ c.projectId # 0 => job.projectId = c.projectId
         /\ c.projectIds # None => job.projectId \in c.projectIds[1]
         /\ (c.jobIds # None /\ Len(c.jobIds[1]) > 0) => job.id \in Range(c.jobIds[1])
         /\ c.skill # None => c.skill[1] \in Range(job.skills)

\* last is a getJob with fromDb = false whose index path raised an error that is
\* neither document-missing nor Forbidden
FallbackCase ==
  /\ last.op = "getJob"
  /\ last.arg = FALSE
  /\ last.idxErr \notin {"none", "DocumentMissing", "Forbidden"}

\* the answer of the last permission check of the request in last
LastPerm == last.perms[Len(last.perms)]

\* C21: a getJob with fromDb = false whose index path raises an error that is neither
\* document-missing nor Forbidden (index get, membership lookup or candidate fetch)
\* queries the relational store once; it fails with NotFound if the row is absent;
\* otherwise it repeats the permission check against the project of the row and,
\* when that check passes, returns the row (when it does not, it ends with the
\* answer of that check).
C21_GetJobFallback ==
  FallbackCase =>
    LET n == Len(last.calls)
    IN /\ last.calls[1] = "esGet"
       /\ Count(last.calls, "dbFindById") = 1
       /\ last.id \notin DOMAIN db =>
            (last.outcome = "NotFound" /\ last.calls[n] = "dbFindById")
       /\ last.id \in DOMAIN db =>
            /\ last.perms # <<>>
            /\ Unprivileged(last.caller) =>
                 /\ last.calls[n] = "member"
                 /\ last.calls[n - 1] = "dbFindById"
                 /\ LastPerm = "ok" =>
                      <<last.caller.userId, db[last.id].projectId>> \in Members
                 /\ LastPerm = "Forbidden" =>
                      <<last.caller.userId, db[last.id].projectId>> \notin Members
            /\ ~Unprivileged(last.caller) => (LastPerm = "ok" /\ last.calls[n] = "dbFindById")
            /\ IF LastPerm = "ok"
               THEN /\ last.outcome = "ok"
                    /\ last.result[1].src = "db"
                    /\ LastJob = db[last.id]
               ELSE last.outcome = LastPerm /\ last.result = None

\* the candidate fetch failed and the relational row, which the index does not hold
\* in that state yet, was returned
C21_Witness ==
  /\ FallbackCase
  /\ "esCandidates" \in Range(last.calls)
  /\ last.outcome = "ok"
  /\ last.result[1].src = "db"
  /\ es[last.id] # db[last.id]

\* C22: getJob returns a job to a caller without management permission, machine
\* identity or connect-manager role only if, within that call and after the read of
\* the record that is returned, the membership service confirmed the caller as a
\* member of the project that record names.
C22_GetJobProjectScoped ==
  (last.op = "getJob" /\ last.outcome = "ok" /\ Unprivileged(last.caller)) =>
    LET n == Len(last.calls)
    IN /\ last.perms # <<>>
       /\ LastPerm = "ok"
       /\ <<last.caller.userId, LastJob.projectId>> \in Members
       /\ IF last.result[1].src = "es"
          THEN /\ last.calls = <<"esGet", "member", "esCandidates">>
               /\ ~projectedSince => LastJob = es[last.id]
          ELSE /\ n >= 2
               /\ last.calls[n] = "member"
               /\ last.calls[n - 1] = "dbFindById"
               /\ LastJob = db[last.id]

\* a regular user got the index document of a job that the relational store has
\* meanwhile in another project
C22_Witness ==
  /\ last.op = "getJob"
  /\ last.caller = U1
  /\ last.outcome = "ok"
  /\ last.result[1].src = "es"
  /\ last.id \in DOMAIN db
  /\ db[last.id].projectId # LastJob.projectId

\* the requests in flight that are an updateJob that has published its event
Published == {p \in Procs : reqs[p].op = "updateJob" /\ reqs[p].event # None}

\* C23 as stated: the prior snapshot an update event carries is the stored state of
\* the job right before the relational write of that update, for every interleaving
\* of concurrent requests on the job.
C23_SnapshotBeforeWrite ==
  \A p \in Published : reqs[p].event[1].oldValue = reqs[p].before[1]

\* C23: the prior snapshot an update event carries is the row the request loaded with
\* Job.findById before its write; it is the stored state right before the write when
\* no other request wrote to the job between that load and the write.  Concurrent
\* requests on one job are not serialised: another write can fall in between.
C23_SnapshotIsLoadedRow ==
  \A p \in Published :
    /\ reqs[p].event[1].topic = "update"
    /\ reqs[p].event[1].oldValue = reqs[p].snapshot
    /\ reqs[p].clean => reqs[p].before[1] = reqs[p].snapshot

\* two updateJob on one job published; one of them loaded the job before the other
\* one wrote, and wrote after it
C23_Witness ==
  \E p, q \in Published :
    /\ p # q
    /\ reqs[p].clean
    /\ ~reqs[q].clean
    /\ reqs[q].before = Some(Some(reqs[p].updated[1]))
    /\ reqs[q].event[1].oldValue = reqs[p].snapshot

\* C24 as stated: an updateJob that has written its update and published its event
\* completes successfully, and the job it returns has the attribute values of the new
\* state that event carries, for every interleaving with concurrent updateJob and
\* deleteJob on the job.
C24_ReturnsPublishedState ==
  \A p \in Published :
    reqs[p].pc = "done" =>
      /\ reqs[p].outcome = "ok"
      /\ reqs[p].result[1].job = reqs[p].event[1].payload[1]

====
